---- MODULE Spec2Model ----
(***************************************************************************)
(* Model of analyze_dataset.py: the reducers over the museum-photograph    *)
(* table and the entry point main.                                         *)
(*                                                                         *)
(* Representation.                                                         *)
(*   - A Python string is a sequence of one-character strings, so that     *)
(*     startswith / endswith / replace / split / strip are computed on the *)
(*     characters as Python computes them.                                 *)
(*   - A cell of the table is Missing (NaN) or Some(v).  A cell read from  *)
(*     a CSV file is never the empty string: pandas reads it as NaN.       *)
(*   - The table df is column-major, as in pandas: its column names in     *)
(*     order, its number of records, and one sequence of cells per column. *)
(*   - A reducer returns Return(frame) or Raise(error).  A frame is its    *)
(*     column names and its rows in order.                                 *)
(*   - A percentage rounded to 2 decimals is kept in hundredths (3000 is   *)
(*     30.00); a mean is kept as the exact pair sum / n.                   *)
(*   - creation_year values are integer years.                             *)
(***************************************************************************)
EXTENDS Integers, Sequences, FiniteSets, TLC

VARIABLES df, pc, line, ret, locals, written, trace, raised

vars == <<df, pc, line, ret, locals, written, trace, raised>>

(***************************************************************************)
(* Bounds of the model: the number of records of the input table in each   *)
(* specification.                                                          *)
(***************************************************************************)
MaxCatRows == 3
MaxSplitRows == 2
MaxObjRows == 2
MaxYearRows == 3
MaxMuseumRows == 2
MaxSummaryRows == 3
MaxMainRows == 1

(***************************************************************************)
(* Column names.                                                           *)
(***************************************************************************)
object_id == <<"o", "b", "j", "e", "c", "t", "_", "i", "d">>
artist_name == <<"a", "r", "t", "i", "s", "t", "_", "n", "a", "m", "e">>
gender == <<"g", "e", "n", "d", "e", "r">>
origin == <<"o", "r", "i", "g", "i", "n">>
creation_year == <<"c", "r", "e", "a", "t", "i", "o", "n", "_", "y", "e", "a", "r">>
work_type == <<"w", "o", "r", "k", "_", "t", "y", "p", "e">>
works_in_museum == <<"w", "o", "r", "k", "s", "_", "i", "n", "_", "m", "u", "s", "e", "u", "m">>
has_ == <<"h", "a", "s", "_">>
_percent == <<"_", "p", "e", "r", "c", "e", "n", "t">>
hat == <<"h", "a", "t">>
dog == <<"d", "o", "g">>

FixedColumns ==
    <<object_id, artist_name, gender, origin, creation_year, work_type, works_in_museum>>

(***************************************************************************)
(* Python str operations, on character sequences.                          *)
(***************************************************************************)
Range(s) == {s[i] : i \in 1..Len(s)}

startswith(s, prefix) ==
    Len(prefix) <= Len(s) /\ SubSeq(s, 1, Len(prefix)) = prefix

endswith(s, suffix) ==
    Len(suffix) <= Len(s) /\ SubSeq(s, Len(s) - Len(suffix) + 1, Len(s)) = suffix

\* s.replace(old, ""): every non-overlapping occurrence of old, left to right.
RECURSIVE replace_with_empty(_, _)
replace_with_empty(s, old) ==
    IF Len(s) = 0 THEN <<>>
    ELSE IF startswith(s, old)
         THEN replace_with_empty(SubSeq(s, Len(old) + 1, Len(s)), old)
         ELSE <<Head(s)>> \o replace_with_empty(Tail(s), old)

\* s.split(sep) for a one-character sep.
RECURSIVE split(_, _)
split(s, sep) ==
    IF \A i \in 1..Len(s) : s[i] # sep THEN <<s>>
    ELSE LET k == CHOOSE i \in 1..Len(s) :
                      s[i] = sep /\ \A j \in 1..(i - 1) : s[j] # sep
         IN <<SubSeq(s, 1, k - 1)>> \o split(SubSeq(s, k + 1, Len(s)), sep)

RECURSIVE lstrip(_)
lstrip(s) == IF Len(s) > 0 /\ Head(s) = " " THEN lstrip(Tail(s)) ELSE s

RECURSIVE rstrip(_)
rstrip(s) ==
    IF Len(s) > 0 /\ s[Len(s)] = " " THEN rstrip(SubSeq(s, 1, Len(s) - 1)) ELSE s

strip(s) == rstrip(lstrip(s))

\* Code points of the characters the model's strings are made of, in ASCII order.
Ascii ==
    <<" ", "A", "B", "X", "Y", "_", "a", "b", "c", "d", "e", "f", "g", "h", "i",
      "j", "k", "l", "m", "n", "o", "p", "q", "r", "s", "t", "u", "v", "w", "x",
      "y", "z", "|">>

ord(c) == CHOOSE i \in 1..Len(Ascii) : Ascii[i] = c

\* s < t for Python strings: lexicographic by code point.
RECURSIVE str_lt(_, _)
str_lt(s, t) ==
    IF Len(t) = 0 THEN FALSE
    ELSE IF Len(s) = 0 THEN TRUE
    ELSE IF Head(s) = Head(t) THEN str_lt(Tail(s), Tail(t))
    ELSE ord(Head(s)) < ord(Head(t))

(***************************************************************************)
(* Cells, Series and the table.                                            *)
(***************************************************************************)
Missing == <<>>
Some(v) == <<v>>
notna(c) == c # Missing

len(d) == d.n

dropna(s) == SelectSeq(s, notna)

\* The values of s, each once, in the order first seen.
RECURSIVE unique(_)
unique(s) ==
    IF Len(s) = 0 THEN <<>>
    ELSE <<Head(s)>> \o unique(SelectSeq(Tail(s), LAMBDA x : x # Head(s)))

occurrences(s, v) == Cardinality({i \in 1..Len(s) : s[i] = v})

\* A stable sort: before[a, b] says that the key of a sorts strictly before
\* that of b; elements of equal keys keep their order.
stable_sort(s, before) ==
    LET n == Len(s)
        rank(i) == Cardinality({j \in 1..n :
                       before[s[j], s[i]] \/ (~before[s[i], s[j]] /\ j < i)})
    IN [k \in 1..n |-> s[CHOOSE i \in 1..n : rank(i) = k - 1]]

\* Series.value_counts(dropna=...): one entry per distinct value, most frequent
\* first, equal counts in the order first seen.
value_counts(s, drop) ==
    LET kept == IF drop THEN dropna(s) ELSE s
        vals == unique(kept)
        entries == [i \in 1..Len(vals) |->
                       [value |-> vals[i], count |-> occurrences(kept, vals[i])]]
    IN stable_sort(entries, [a, b \in Range(entries) |-> a.count > b.count])

\* round(num / den, 2) in hundredths, halves to even as numpy rounds.
round2(num, den) ==
    LET q == (num * 100) \div den
        r == (num * 100) % den
    IN IF 2 * r > den \/ (2 * r = den /\ q % 2 = 1) THEN q + 1 ELSE q

Return(fn, frame) == [fn |-> fn, raised |-> "", value |-> frame]
Raise(fn, error) == [fn |-> fn, raised |-> error, value |-> <<>>]
NoReturn == [fn |-> "", raised |-> "", value |-> <<>>]

AllMissing(n) == [i \in 1..n |-> Missing]

\* The table with n records, the fixed columns followed by extra_columns, whose
\* cells are those given and Missing in every other column.
Table(n, extra_columns, given) ==
    [columns |-> FixedColumns \o extra_columns,
     n |-> n,
     col |-> [c \in Range(FixedColumns \o extra_columns) |->
                 IF c \in DOMAIN given THEN given[c] ELSE AllMissing(n)]]

(***************************************************************************)
(* 4.1 Categorical distribution: analyze_gender, analyze_work_types.       *)
(***************************************************************************)
analyze_gender_dropna(d) ==
    LET total == len(d)
        counts == value_counts(d.col[gender], TRUE)
    IN Return("analyze_gender",
              [columns |-> <<"gender", "count", "percentage">>,
               rows |-> [i \in 1..Len(counts) |->
                            [gender |-> counts[i].value,
                             count |-> counts[i].count,
                             percentage |-> round2(counts[i].count * 100, total)]]])

analyze_gender(d) ==
    LET total == len(d)
        counts == value_counts(d.col[gender], FALSE)
    IN Return("analyze_gender",
              [columns |-> <<"gender", "count", "percentage">>,
               rows |-> [i \in 1..Len(counts) |->
                            [gender |-> counts[i].value,
                             count |-> counts[i].count,
                             percentage |-> round2(counts[i].count * 100, total)]]])

analyze_work_types(d) ==
    LET counts == value_counts(d.col[work_type], FALSE)
    IN Return("analyze_work_types",
              [columns |-> <<"work_type", "count", "percentage">>,
               rows |-> [i \in 1..Len(counts) |->
                            [work_type |-> counts[i].value,
                             count |-> counts[i].count,
                             percentage |-> round2(counts[i].count * 100, len(d))]]])

(***************************************************************************)
(* Calling one reducer on a table: the state of a call.                    *)
(***************************************************************************)
Call(result) ==
    /\ pc = "ready"
    /\ ret' = result
    /\ pc' = "returned"
    /\ UNCHANGED <<df, line, locals, written, trace, raised>>

InitCall(tables) ==
    /\ df \in tables
    /\ pc = "ready"
    /\ line = 0
    /\ ret = NoReturn
    /\ locals = <<>>
    /\ written = <<>>
    /\ trace = <<>>
    /\ raised = ""

Returned(fn) == pc = "returned" /\ ret.fn = fn

RECURSIVE Sum(_)
Sum(s) == IF Len(s) = 0 THEN 0 ELSE Head(s) + Sum(Tail(s))

(***************************************************************************)
(* Specification of the categorical reducers.                              *)
(***************************************************************************)
GenderCells == {Missing, Some("F"), Some("M")}
WorkTypeCells == {Missing, Some("photograph"), Some("print")}

CategoricalTables ==
    {Table(n, <<>>, (gender :> g) @@ (work_type :> w)) :
        <<n, g, w>> \in UNION {{n} \X [1..n -> GenderCells] \X [1..n -> WorkTypeCells] :
                                  n \in 0..MaxCatRows}}

CallAnalyzeGender == Call(analyze_gender(df))
CallAnalyzeWorkTypes == Call(analyze_work_types(df))

InitCategorical == InitCall(CategoricalTables)
NextCategorical == CallAnalyzeGender \/ CallAnalyzeWorkTypes
SpecCategorical == InitCategorical /\ [][NextCategorical]_vars

\* The categorical distribution of column c in the rows of a returned frame:
\* one row per distinct value of the column, Missing included, each counting the
\* records that hold it.
IsDistribution(rows, field, column) ==
    /\ {rows[i][field] : i \in 1..Len(rows)} = Range(column)
    /\ \A i, j \in 1..Len(rows) : rows[i][field] = rows[j][field] => i = j
    /\ \A i \in 1..Len(rows) :
           rows[i].count = Cardinality({k \in 1..Len(column) : column[k] = rows[i][field]})
    /\ Sum([i \in 1..Len(rows) |-> rows[i].count]) = Len(column)

\* C1: analyze_gender and analyze_work_types return one row per distinct value
\* of their column, the missing value being a category of its own; a row's count
\* is the number of records holding that value, and the counts add up to the
\* number of records.
C1_CategoricalDistribution ==
    /\ Returned("analyze_gender") =>
           /\ ret.raised = ""
           /\ IsDistribution(ret.value.rows, "gender", df.col[gender])
    /\ Returned("analyze_work_types") =>
           /\ ret.raised = ""
           /\ IsDistribution(ret.value.rows, "work_type", df.col[work_type])

C1_Witness ==
    /\ Returned("analyze_gender")
    /\ len(df) = 3
    /\ Range(df.col[gender]) = {Missing, Some("F")}
    /\ Len(ret.value.rows) = 2

(***************************************************************************)
(* Frames built from records and a dict of counts.                         *)
(***************************************************************************)
\* pd.DataFrame.from_records(records): the columns are the keys of the
\* records, so the frame of no record has no column.
from_records(records, keys) ==
    [columns |-> IF Len(records) = 0 THEN <<>> ELSE keys, rows |-> records]

has_column(frame, name) == name \in Range(frame.columns)

\* dict[key] = value: a new key goes last, a known key keeps its place.
dict_set(dict, key, value) ==
    IF \E i \in 1..Len(dict) : dict[i].key = key
    THEN [i \in 1..Len(dict) |->
             IF dict[i].key = key THEN [key |-> key, value |-> value] ELSE dict[i]]
    ELSE Append(dict, [key |-> key, value |-> value])

\* Counter(list): the distinct elements in the order first seen, each with the
\* number of its occurrences.
Counter(list) ==
    LET keys == unique(list)
    IN [i \in 1..Len(keys) |-> [key |-> keys[i], value |-> occurrences(list, keys[i])]]

(***************************************************************************)
(* 4.2 Multi-valued splitter: analyze_nationality, analyze_artists.        *)
(***************************************************************************)
\* The segments one non-missing value adds to the list.
segments_of(value) ==
    IF "|" \in Range(value)
    THEN LET parts == split(value, "|")
         IN [i \in 1..Len(parts) |-> strip(parts[i])]
    ELSE <<strip(value)>>

RECURSIVE all_segments(_)
all_segments(cells) ==
    IF Len(cells) = 0 THEN <<>>
    ELSE segments_of(Head(cells)[1]) \o all_segments(Tail(cells))

analyze_nationality(d) ==
    LET all_origins == all_segments(dropna(d.col[origin]))
        origin_counts == Counter(all_origins)
        frame == from_records([i \in 1..Len(origin_counts) |->
                                  [origin |-> origin_counts[i].key,
                                   count |-> origin_counts[i].value]],
                              <<"origin", "count">>)
    IN IF ~has_column(frame, "count") THEN Raise("analyze_nationality", "KeyError")
       ELSE Return("analyze_nationality",
                   [frame EXCEPT !.rows =
                       stable_sort(frame.rows, [a, b \in Range(frame.rows) |-> a.count > b.count])])

analyze_artists(d) ==
    LET all_artists == all_segments(dropna(d.col[artist_name]))
        artist_counts == Counter(all_artists)
        frame == from_records([i \in 1..Len(artist_counts) |->
                                  [artist_name |-> artist_counts[i].key,
                                   count |-> artist_counts[i].value]],
                              <<"artist_name", "count">>)
    IN IF ~has_column(frame, "count") THEN Raise("analyze_artists", "KeyError")
       ELSE Return("analyze_artists",
                   [frame EXCEPT !.rows =
                       stable_sort(frame.rows, [a, b \in Range(frame.rows) |-> a.count > b.count])])

(***************************************************************************)
(* Specification of the splitters.                                         *)
(***************************************************************************)
OriginCells ==
    {Missing, Some(<<"A">>), Some(<<"B">>), Some(<<"A", "|", "B">>),
     Some(<<" ", "A", " ", "|", "B", " ">>), Some(<<"B", "|", "B">>)}
ArtistCells ==
    {Missing, Some(<<"X">>), Some(<<"X", "|", "Y">>), Some(<<"Y", " ", "|">>)}

SplitTables ==
    {Table(n, <<>>, (origin :> o) @@ (artist_name :> a)) :
        <<n, o, a>> \in UNION {{n} \X [1..n -> OriginCells] \X [1..n -> ArtistCells] :
                                  n \in 0..MaxSplitRows}}

CallAnalyzeNationality == Call(analyze_nationality(df))
CallAnalyzeArtists == Call(analyze_artists(df))

InitSplit == InitCall(SplitTables)
NextSplit == CallAnalyzeNationality \/ CallAnalyzeArtists
SpecSplit == InitSplit /\ [][NextSplit]_vars

\* The `|`-segments of a value, read off the positions of its delimiters: the
\* segment that starts after position a (a delimiter, or 0) runs to the next
\* delimiter or the end, without its surrounding blanks.
SegmentStarts(v) == {0} \cup {i \in 1..Len(v) : v[i] = "|"}
SegmentEnd(v, a) ==
    IF \E i \in (a + 1)..Len(v) : v[i] = "|"
    THEN CHOOSE i \in (a + 1)..Len(v) : v[i] = "|" /\ \A j \in (a + 1)..(i - 1) : v[j] # "|"
    ELSE Len(v) + 1
Trimmed(s) ==
    LET inked == {i \in 1..Len(s) : s[i] # " "}
    IN IF inked = {} THEN <<>>
       ELSE SubSeq(s, CHOOSE i \in inked : \A j \in inked : i <= j,
                      CHOOSE i \in inked : \A j \in inked : i >= j)
SegmentAt(v, a) == Trimmed(SubSeq(v, a + 1, SegmentEnd(v, a) - 1))

\* Every occurrence of a segment in a column: the record and where it starts.
SegmentOccurrences(column) ==
    UNION {{<<i, a>> : a \in SegmentStarts(column[i][1])} :
              i \in {k \in 1..Len(column) : column[k] # Missing}}

IsSegmentCount(rows, field, column) ==
    LET occ == SegmentOccurrences(column)
        seg(o) == SegmentAt(column[o[1]][1], o[2])
    IN /\ {rows[i][field] : i \in 1..Len(rows)} = {seg(o) : o \in occ}
       /\ \A i, j \in 1..Len(rows) : rows[i][field] = rows[j][field] => i = j
       /\ \A i \in 1..Len(rows) :
              rows[i].count = Cardinality({o \in occ : seg(o) = rows[i][field]})

\* C2: analyze_nationality and analyze_artists return, for every table, one row
\* per distinct trimmed `|`-segment of the non-missing values of their column,
\* counting the occurrences of that segment; missing values add nothing.
C2_SegmentCounts ==
    /\ Returned("analyze_nationality") =>
           /\ ret.raised = ""
           /\ IsSegmentCount(ret.value.rows, "origin", df.col[origin])
    /\ Returned("analyze_artists") =>
           /\ ret.raised = ""
           /\ IsSegmentCount(ret.value.rows, "artist_name", df.col[artist_name])

\* What the splitters do keep of C2: whenever they return, the rows are the
\* segment counts; they raise exactly when the column has no non-missing value.
SplitReturnsSegmentCounts ==
    /\ Returned("analyze_nationality") =>
           IF \A i \in 1..len(df) : df.col[origin][i] = Missing
           THEN ret.raised = "KeyError"
           ELSE ret.raised = "" /\ IsSegmentCount(ret.value.rows, "origin", df.col[origin])
    /\ Returned("analyze_artists") =>
           IF \A i \in 1..len(df) : df.col[artist_name][i] = Missing
           THEN ret.raised = "KeyError"
           ELSE /\ ret.raised = ""
                /\ IsSegmentCount(ret.value.rows, "artist_name", df.col[artist_name])

(***************************************************************************)
(* 4.3 Presence and coverage: analyze_objects, analyze_object_percentages. *)
(***************************************************************************)
count_notna(s) == Len(dropna(s))

\* The dict object_counts after the loop over the columns cols.
RECURSIVE object_counts(_, _)
object_counts(d, cols) ==
    IF Len(cols) = 0 THEN <<>>
    ELSE LET before == object_counts(d, SubSeq(cols, 1, Len(cols) - 1))
             column == cols[Len(cols)]
             object_name == replace_with_empty(column, has_)
             count == count_notna(d.col[column])
         IN IF count > 0 THEN dict_set(before, object_name, count) ELSE before

analyze_objects(d) ==
    LET object_columns == SelectSeq(d.columns, LAMBDA c : startswith(c, has_))
        counts == object_counts(d, object_columns)
        frame == from_records([i \in 1..Len(counts) |->
                                  [object |-> counts[i].key, count |-> counts[i].value]],
                              <<"object", "count">>)
    IN IF ~has_column(frame, "count") THEN Raise("analyze_objects", "KeyError")
       ELSE LET rows == [i \in 1..Len(frame.rows) |->
                            [object |-> frame.rows[i].object,
                             count |-> frame.rows[i].count,
                             percentage |-> round2(frame.rows[i].count * 100, len(d))]]
            IN Return("analyze_objects",
                      [columns |-> <<"object", "count", "percentage">>,
                       rows |-> stable_sort(rows, [a, b \in Range(rows) |-> a.count > b.count])])

\* Series.max() of a non-empty series of numbers.
series_max(values) ==
    CHOOSE m \in Range(values) : \A v \in Range(values) : v <= m

\* Series.mean(), as the exact quotient <<sum, n>>.
series_mean(values) == <<Sum(values), Len(values)>>

\* Series.median(), as the exact quotient <<twice the median, 2>>.
series_median(values) ==
    LET sorted == stable_sort(values, [a, b \in Range(values) |-> a < b])
        n == Len(values)
    IN IF n % 2 = 1 THEN <<2 * sorted[(n + 1) \div 2], 2>>
       ELSE <<sorted[n \div 2] + sorted[n \div 2 + 1], 2>>

\* p > q for quotients with positive denominators.
quotient_gt(p, q) == p[1] * q[2] > q[1] * p[2]

\* The dict coverage_stats after the loop over the columns cols.
RECURSIVE coverage_stats(_, _)
coverage_stats(d, cols) ==
    IF Len(cols) = 0 THEN <<>>
    ELSE LET before == coverage_stats(d, SubSeq(cols, 1, Len(cols) - 1))
             column == cols[Len(cols)]
             object_name == replace_with_empty(replace_with_empty(column, _percent), has_)
             cells == dropna(d.col[column])
             values == [i \in 1..Len(cells) |-> cells[i][1]]
         IN IF Len(values) > 0
            THEN dict_set(before, object_name,
                          [mean |-> series_mean(values),
                           median |-> series_median(values),
                           max |-> series_max(values),
                           count |-> Len(values)])
            ELSE before

analyze_object_percentages(d) ==
    LET percent_columns == SelectSeq(d.columns, LAMBDA c : endswith(c, _percent))
        stats == coverage_stats(d, percent_columns)
        frame == from_records([i \in 1..Len(stats) |->
                                  [object |-> stats[i].key,
                                   mean_percent |-> stats[i].value.mean,
                                   median_percent |-> stats[i].value.median,
                                   max_percent |-> stats[i].value.max,
                                   count |-> stats[i].value.count]],
                              <<"object", "mean_percent", "median_percent",
                                "max_percent", "count">>)
    IN IF ~has_column(frame, "mean_percent")
       THEN Raise("analyze_object_percentages", "KeyError")
       ELSE Return("analyze_object_percentages",
                   [frame EXCEPT !.rows =
                       stable_sort(frame.rows,
                                   [a, b \in Range(frame.rows) |->
                                       quotient_gt(a.mean_percent, b.mean_percent)])])

(***************************************************************************)
(* Specification of the presence and coverage reducers.                    *)
(***************************************************************************)
has_hat == has_ \o hat
has_dog == has_ \o dog
has_hat_percent == has_ \o hat \o _percent
hat_percent == hat \o _percent
has_dog_percent == has_ \o dog \o _percent

\* The object columns a table may carry beside the fixed ones.
ObjectColumnSets ==
    {<<>>, <<hat>>, <<has_hat>>, <<has_hat, has_dog>>, <<has_hat, has_hat_percent>>,
     <<has_hat_percent>>, <<has_hat_percent, has_dog_percent>>,
     <<has_hat_percent, hat_percent>>}

PresenceCells == {Missing, Some(0), Some(1)}
PercentCells == {Missing, Some(10), Some(30)}
ObjectCells(column) == IF endswith(column, _percent) THEN PercentCells ELSE PresenceCells

ObjectTables ==
    UNION {UNION {{Table(n, extra, given) :
                      given \in {g \in [Range(extra) -> [1..n -> PresenceCells \cup PercentCells]] :
                                    \A c \in Range(extra) : \A i \in 1..n : g[c][i] \in ObjectCells(c)}} :
                     extra \in ObjectColumnSets} :
              n \in 0..MaxObjRows}

CallAnalyzeObjects == Call(analyze_objects(df))
CallAnalyzeObjectPercentages == Call(analyze_object_percentages(df))

InitObjects == InitCall(ObjectTables)
NextObjects == CallAnalyzeObjects \/ CallAnalyzeObjectPercentages
SpecObjects == InitObjects /\ [][NextObjects]_vars

NonMissing(column) == {i \in 1..Len(column) : column[i] # Missing}

\* The columns of the table named with a prefix (or a suffix) that hold at least
\* one non-missing value.
PresenceColumns(d) ==
    {c \in Range(d.columns) : startswith(c, has_) /\ NonMissing(d.col[c]) # {}}
CoverageColumns(d) ==
    {c \in Range(d.columns) : endswith(c, _percent) /\ NonMissing(d.col[c]) # {}}

StripPrefix(c, prefix) ==
    IF startswith(c, prefix) THEN SubSeq(c, Len(prefix) + 1, Len(c)) ELSE c
StripSuffix(c, suffix) ==
    IF endswith(c, suffix) THEN SubSeq(c, 1, Len(c) - Len(suffix)) ELSE c

\* C3: analyze_objects returns, for every table, exactly one row per column
\* named has_* that holds a non-missing value and no other row: its label is
\* the name without the prefix, its count the number of non-missing values and
\* its percentage count / records * 100; with no such column it returns the
\* table of no rows.
C3_AppearanceCounts ==
    Returned("analyze_objects") =>
        /\ ret.raised = ""
        /\ Len(ret.value.rows) = Cardinality(PresenceColumns(df))
        /\ \A c \in PresenceColumns(df) :
               \E i \in 1..Len(ret.value.rows) :
                   /\ ret.value.rows[i].object = StripPrefix(c, has_)
                   /\ ret.value.rows[i].count = Cardinality(NonMissing(df.col[c]))
                   /\ ret.value.rows[i].percentage =
                          round2(Cardinality(NonMissing(df.col[c])) * 100, len(df))

\* What analyze_objects does keep of C3: it raises exactly when no has_* column
\* holds a value, and otherwise returns the rows C3 describes.
ObjectsReturnsAppearanceCounts ==
    Returned("analyze_objects") =>
        IF PresenceColumns(df) = {} THEN ret.raised = "KeyError"
        ELSE /\ ret.raised = ""
             /\ Len(ret.value.rows) = Cardinality(PresenceColumns(df))
             /\ \A c \in PresenceColumns(df) :
                    \E i \in 1..Len(ret.value.rows) :
                        /\ ret.value.rows[i].object = StripPrefix(c, has_)
                        /\ ret.value.rows[i].count = Cardinality(NonMissing(df.col[c]))
                        /\ ret.value.rows[i].percentage =
                               round2(Cardinality(NonMissing(df.col[c])) * 100, len(df))

\* The label C4 gives a coverage column, and the label analyze_objects derives
\* for the presence column of that object.
CoverageLabel(c) == StripPrefix(StripSuffix(c, _percent), has_)
PresenceLabel(c) == replace_with_empty(has_ \o CoverageLabel(c), has_)

\* C4: analyze_object_percentages returns, for every table, exactly one row per
\* column named *_percent that holds a non-missing value and none for the
\* others: its count is the number of non-missing values, its max their
\* maximum, and its label the one analyze_objects gives the presence column.
C4_CoverageStatistics ==
    Returned("analyze_object_percentages") =>
        /\ ret.raised = ""
        /\ Len(ret.value.rows) = Cardinality(CoverageColumns(df))
        /\ \A c \in CoverageColumns(df) :
               \E i \in 1..Len(ret.value.rows) :
                   /\ ret.value.rows[i].object = PresenceLabel(c)
                   /\ ret.value.rows[i].count = Cardinality(NonMissing(df.col[c]))
                   /\ ret.value.rows[i].max_percent \in
                          {df.col[c][k][1] : k \in NonMissing(df.col[c])}
                   /\ \A k \in NonMissing(df.col[c]) :
                          df.col[c][k][1] <= ret.value.rows[i].max_percent

(***************************************************************************)
(* 4.4 Temporal bucketing: analyze_temporal.                               *)
(***************************************************************************)
decade_nearest(year) == ((year + 5) \div 10) * 10

\* years // 10 * 10: floor division.
decade_of(year) == (year \div 10) * 10

analyze_temporal(d) ==
    LET years == dropna(d.col[creation_year])
        decades == [i \in 1..Len(years) |-> Some(decade_of(years[i][1]))]
        counts == value_counts(decades, TRUE)
        decade_counts == stable_sort(counts, [a, b \in Range(counts) |->
                                                 a.value[1] < b.value[1]])
    IN Return("analyze_temporal",
              [columns |-> <<"decade", "count">>,
               rows |-> [i \in 1..Len(decade_counts) |->
                            [decade |-> decade_counts[i].value[1],
                             count |-> decade_counts[i].count]]])

YearCells == {Missing, Some(1923), Some(1929), Some(1931), Some(-5)}

TemporalTables ==
    {Table(n, <<>>, creation_year :> y) :
        <<n, y>> \in UNION {{n} \X [1..n -> YearCells] : n \in 0..MaxYearRows}}

CallAnalyzeTemporal == Call(analyze_temporal(df))

InitTemporal == InitCall(TemporalTables)
NextTemporal == CallAnalyzeTemporal
SpecTemporal == InitTemporal /\ [][NextTemporal]_vars

\* The decade of year y: the multiple of ten with decade <= y < decade + 10.
InDecade(y, decade) == decade % 10 = 0 /\ decade <= y /\ y < decade + 10

\* C5: analyze_temporal ignores the records without a creation_year and returns
\* one row per decade floor(y / 10) * 10 of the remaining years, counting the
\* years of that decade, in strictly ascending decade order; the counts add up
\* to the number of records with a year.
C5_DecadeCounts ==
    Returned("analyze_temporal") =>
        LET rows == ret.value.rows
            years == df.col[creation_year]
            present == NonMissing(years)
        IN /\ ret.raised = ""
           /\ \A k \in present : \E i \in 1..Len(rows) : InDecade(years[k][1], rows[i].decade)
           /\ \A i \in 1..Len(rows) :
                  /\ rows[i].count > 0
                  /\ rows[i].count =
                         Cardinality({k \in present : InDecade(years[k][1], rows[i].decade)})
           /\ \A i, j \in 1..Len(rows) : i < j => rows[i].decade < rows[j].decade
           /\ Sum([i \in 1..Len(rows) |-> rows[i].count]) = Cardinality(present)

C5_Witness ==
    /\ Returned("analyze_temporal")
    /\ df.col[creation_year] = <<Some(1931), Some(1923), Some(1929)>>
    /\ ret.value.rows = <<[decade |-> 1920, count |-> 2], [decade |-> 1930, count |-> 1]>>

(***************************************************************************)
(* 4.5 Grouped aggregation: analyze_museum_collection.                     *)
(***************************************************************************)
\* The records of the group of key, in table order.
group_indices(d, key) ==
    SelectSeq([i \in 1..len(d) |-> i], LAMBDA i : d.col[artist_name][i] = Some(key))

group_last(cells) ==
    IF Len(dropna(cells)) = 0 THEN Missing ELSE dropna(cells)[Len(dropna(cells))]

\* GroupBy 'first': the first non-missing value of the group, NaN when it has none.
group_first(cells) ==
    IF Len(dropna(cells)) = 0 THEN Missing ELSE Head(dropna(cells))

group_nunique(cells) == Cardinality(Range(dropna(cells)))

\* GroupBy 'count': the number of non-missing values of the group.
group_count(cells) == Len(dropna(cells))

\* sort_values(ascending=False): the greater value first, NaN last.
desc_nan_last(a, b) == a # Missing /\ (b = Missing \/ a[1] > b[1])

analyze_museum_collection(d) ==
    LET names == dropna(d.col[artist_name])
        found == unique([i \in 1..Len(names) |-> names[i][1]])
        keys == stable_sort(found, [a, b \in Range(found) |-> str_lt(a, b)])
        grouped ==
            [g \in 1..Len(keys) |->
                LET members == group_indices(d, keys[g])
                IN [artist_name |-> keys[g],
                    works_in_museum |->
                        group_first([m \in 1..Len(members) |->
                                        d.col[works_in_museum][members[m]]]),
                    in_dataset_count |->
                        group_count([m \in 1..Len(members) |->
                                        d.col[object_id][members[m]]])]]
    IN Return("analyze_museum_collection",
              [columns |-> <<"artist_name", "works_in_museum", "in_dataset_count">>,
               rows |-> stable_sort(grouped,
                            [a, b \in Range(grouped) |->
                                desc_nan_last(a.works_in_museum, b.works_in_museum)])])

MuseumArtistCells == {Missing, Some(<<"X">>), Some(<<"Y">>)}
WorksInMuseumCells == {Missing, Some(5), Some(7)}
ObjectIdCells == {Missing, Some(1), Some(2)}

MuseumTables ==
    {Table(n, <<>>, (artist_name :> a) @@ (works_in_museum :> w) @@ (object_id :> o)) :
        <<n, a, w, o>> \in
            UNION {{n} \X [1..n -> MuseumArtistCells] \X [1..n -> WorksInMuseumCells]
                       \X [1..n -> ObjectIdCells] : n \in 0..MaxMuseumRows}}

CallAnalyzeMuseumCollection == Call(analyze_museum_collection(df))

InitMuseum == InitCall(MuseumTables)
NextMuseum == CallAnalyzeMuseumCollection
SpecMuseum == InitMuseum /\ [][NextMuseum]_vars

\* The records whose artist_name is the cell c.
Group(d, c) == {k \in 1..len(d) : d.col[artist_name][k] = c}

\* C6 as stated: one row per distinct artist_name, the records without a name
\* being a group of their own; in_dataset_count is the number of records of the
\* group, and the counts add up to the number of records.
C6_GroupsCoverEveryRecord ==
    Returned("analyze_museum_collection") =>
        LET rows == ret.value.rows
        IN /\ ret.raised = ""
           /\ Len(rows) = Cardinality(Range(df.col[artist_name]))
           /\ \A i \in 1..Len(rows) :
                  rows[i].in_dataset_count = Cardinality(Group(df, Some(rows[i].artist_name)))
           /\ Sum([i \in 1..Len(rows) |-> rows[i].in_dataset_count]) = len(df)

\* C6 as amended: one row per distinct non-missing artist_name, the records
\* without a name being in no group; in_dataset_count is the number of records
\* of the group whose object_id is not missing, duplicates included, and the
\* counts add up to the number of records with a name and an object_id.
C6_GroupsOfNamedRecords ==
    Returned("analyze_museum_collection") =>
        LET rows == ret.value.rows
            counted(c) == {k \in Group(df, c) : df.col[object_id][k] # Missing}
        IN /\ ret.raised = ""
           /\ {Some(rows[i].artist_name) : i \in 1..Len(rows)} =
                  Range(df.col[artist_name]) \ {Missing}
           /\ Len(rows) = Cardinality(Range(df.col[artist_name]) \ {Missing})
           /\ \A i \in 1..Len(rows) :
                  rows[i].in_dataset_count = Cardinality(counted(Some(rows[i].artist_name)))
           /\ Sum([i \in 1..Len(rows) |-> rows[i].in_dataset_count]) =
                  Cardinality({k \in 1..len(df) : /\ df.col[artist_name][k] # Missing
                                                  /\ df.col[object_id][k] # Missing})

C6_Witness ==
    /\ Returned("analyze_museum_collection")
    /\ df.col[artist_name] = <<Some(<<"X">>), Some(<<"X">>)>>
    /\ df.col[object_id] = <<Some(1), Some(1)>>
    /\ ret.value.rows[1].in_dataset_count = 2

Min(S) == CHOOSE m \in S : \A k \in S : m <= k

\* C7 as stated: a group's works_in_museum is that of the first record of the
\* group in table order, missing or not; the rows are in descending order of it.
C7_FirstRecordValue ==
    Returned("analyze_museum_collection") =>
        LET rows == ret.value.rows
        IN /\ \A i \in 1..Len(rows) :
                  rows[i].works_in_museum =
                      df.col[works_in_museum][Min(Group(df, Some(rows[i].artist_name)))]
           /\ \A i, j \in 1..Len(rows) :
                  i < j => ~desc_nan_last(rows[j].works_in_museum, rows[i].works_in_museum)

\* C7 as amended: a group's works_in_museum is the first non-missing
\* works_in_museum of its records in table order, and missing only when every
\* record of the group lacks it; later records with another value change
\* nothing.  The rows with a value are in descending order of it, and the rows
\* without one come last.
C7_FirstNonMissingValue ==
    Returned("analyze_museum_collection") =>
        LET rows == ret.value.rows
            valued(c) == {k \in Group(df, c) : df.col[works_in_museum][k] # Missing}
        IN /\ \A i \in 1..Len(rows) :
                  LET has == valued(Some(rows[i].artist_name))
                  IN IF has = {} THEN rows[i].works_in_museum = Missing
                     ELSE rows[i].works_in_museum = df.col[works_in_museum][Min(has)]
           /\ \A i, j \in 1..Len(rows) :
                  i < j =>
                      /\ rows[i].works_in_museum = Missing => rows[j].works_in_museum = Missing
                      /\ (rows[i].works_in_museum # Missing /\ rows[j].works_in_museum # Missing)
                             => rows[i].works_in_museum[1] >= rows[j].works_in_museum[1]

C7_Witness ==
    /\ Returned("analyze_museum_collection")
    /\ df.col[artist_name] = <<Some(<<"X">>), Some(<<"X">>)>>
    /\ df.col[works_in_museum] = <<Missing, Some(5)>>
    /\ ret.value.rows[1].works_in_museum = Some(5)

(***************************************************************************)
(* 4.6 Summary and missing-value profile: generate_summary_stats.          *)
(***************************************************************************)
nunique_keepna(s) == Cardinality(Range(s))

\* Series.nunique(): the number of distinct non-missing values.
nunique(s) == Cardinality(Range(dropna(s)))

\* Series.min() and Series.max() skip NaN, and are NaN when nothing is left.
series_min_skipna(s) ==
    LET values == {dropna(s)[i][1] : i \in 1..Len(dropna(s))}
    IN IF values = {} THEN Missing
       ELSE Some(CHOOSE m \in values : \A v \in values : m <= v)
series_max_skipna(s) ==
    LET values == {dropna(s)[i][1] : i \in 1..Len(dropna(s))}
    IN IF values = {} THEN Missing
       ELSE Some(CHOOSE m \in values : \A v \in values : m >= v)

generate_summary_stats(d) ==
    LET year_min == series_min_skipna(d.col[creation_year])
        year_max == series_max_skipna(d.col[creation_year])
    IN IF year_min = Missing \/ year_max = Missing
       THEN Raise("generate_summary_stats", "ValueError")
       ELSE LET summary ==
                    [columns |-> <<"total_records", "total_columns", "unique_artists",
                                   "unique_object_ids", "year_min", "year_max">>,
                     rows |-> <<[total_records |-> len(d),
                                 total_columns |-> Len(d.columns),
                                 unique_artists |-> nunique(d.col[artist_name]),
                                 unique_object_ids |-> nunique(d.col[object_id]),
                                 year_min |-> year_min[1],
                                 year_max |-> year_max[1]]>>]
                profile == [i \in 1..Len(d.columns) |->
                               [column |-> d.columns[i],
                                percent_missing |->
                                    round2((len(d) - count_notna(d.col[d.columns[i]])) * 100,
                                           len(d))]]
                missing_df ==
                    [columns |-> <<"column", "percent_missing">>,
                     rows |-> stable_sort(profile,
                                  [a, b \in Range(profile) |->
                                      a.percent_missing > b.percent_missing])]
            IN Return("generate_summary_stats",
                      [summary |-> summary, missing_df |-> missing_df])

SummaryArtistCells == {Missing, Some(<<"X">>), Some(<<"X", "|", "Y">>)}
SummaryYearCells == {Missing, Some(1923), Some(1931)}

SummaryTables ==
    {Table(n, <<>>, (artist_name :> a) @@ (creation_year :> y)) :
        <<n, a, y>> \in UNION {{n} \X [1..n -> SummaryArtistCells] \X [1..n -> SummaryYearCells] :
                                  n \in 0..MaxSummaryRows}}

CallGenerateSummaryStats == Call(generate_summary_stats(df))

InitSummary == InitCall(SummaryTables)
NextSummary == CallGenerateSummaryStats
SpecSummary == InitSummary /\ [][NextSummary]_vars

\* C8: generate_summary_stats raises, returning nothing, whenever no record has
\* a creation_year (the table of no record included); otherwise it returns one
\* summary row whose year_min and year_max are the least and the greatest of the
\* years present and whose unique_artists is the number of distinct non-missing
\* artist_name values.
C8_SummaryOrFailure ==
    Returned("generate_summary_stats") =>
        LET present == NonMissing(df.col[creation_year])
            years == {df.col[creation_year][k][1] : k \in present}
        IN IF present = {}
           THEN ret.raised # "" /\ ret.value = <<>>
           ELSE /\ ret.raised = ""
                /\ Len(ret.value.summary.rows) = 1
                /\ ret.value.summary.rows[1].year_min \in years
                /\ ret.value.summary.rows[1].year_max \in years
                /\ \A y \in years : /\ ret.value.summary.rows[1].year_min <= y
                                    /\ y <= ret.value.summary.rows[1].year_max
                /\ ret.value.summary.rows[1].unique_artists =
                       Cardinality(Range(df.col[artist_name]) \ {Missing})

C8_Witness ==
    /\ Returned("generate_summary_stats")
    /\ df.col[creation_year] = <<Some(1931), Missing, Some(1923)>>
    /\ df.col[artist_name] = <<Some(<<"X">>), Missing, Some(<<"X">>)>>
    /\ ret.value.summary.rows[1].year_min = 1923
    /\ ret.value.summary.rows[1].year_max = 1931
    /\ ret.value.summary.rows[1].unique_artists = 1

\* The failing half of C8 is reached too: a table with records, none with a year.
SummaryFailureReached ==
    /\ Returned("generate_summary_stats")
    /\ len(df) > 0
    /\ ret.raised = "ValueError"

(***************************************************************************)
(* main: the statements of lines 183-200, one step each.  A nested call     *)
(* write_df(analyze_x(df), ...) is two steps: the reducer returns its frame *)
(* into a temporary, then write_df writes the temporary.                    *)
(***************************************************************************)
Step(op, fn, var, file) == [op |-> op, fn |-> fn, var |-> var, file |-> file]

MainStepsProfileFromSummary ==
    <<Step("load", "load_data", "df", ""),
      Step("mkdir", "ensure_output_dir", "out_dir", ""),
      Step("call", "generate_summary_stats", "summary_df", ""),
      Step("write", "write_df", "summary_df", "summary.csv"),
      Step("write", "write_df", "summary_df", "missing_data_percentages.csv"),
      Step("call", "analyze_gender", "tmp", ""),
      Step("write", "write_df", "tmp", "gender_distribution.csv"),
      Step("call", "analyze_nationality", "tmp", ""),
      Step("write", "write_df", "tmp", "nationality_counts.csv"),
      Step("call", "analyze_artists", "tmp", ""),
      Step("write", "write_df", "tmp", "artist_counts.csv"),
      Step("call", "analyze_temporal", "tmp", ""),
      Step("write", "write_df", "tmp", "decade_counts.csv"),
      Step("call", "analyze_work_types", "tmp", ""),
      Step("write", "write_df", "tmp", "work_type_distribution.csv"),
      Step("call", "analyze_museum_collection", "tmp", ""),
      Step("write", "write_df", "tmp", "museum_collection_by_artist.csv"),
      Step("call", "analyze_objects", "tmp", ""),
      Step("write", "write_df", "tmp", "object_appearances.csv"),
      Step("call", "analyze_object_percentages", "tmp", ""),
      Step("write", "write_df", "tmp", "object_coverage_stats.csv"),
      Step("print", "print", "", "")>>

MainSteps ==
    <<Step("load", "load_data", "df", ""),
      Step("mkdir", "ensure_output_dir", "out_dir", ""),
      Step("call", "generate_summary_stats", "summary_df", ""),
      Step("write", "write_df", "summary_df", "summary.csv"),
      Step("write", "write_df", "missing_df", "missing_data_percentages.csv"),
      Step("call", "analyze_gender", "tmp", ""),
      Step("write", "write_df", "tmp", "gender_distribution.csv"),
      Step("call", "analyze_nationality", "tmp", ""),
      Step("write", "write_df", "tmp", "nationality_counts.csv"),
      Step("call", "analyze_artists", "tmp", ""),
      Step("write", "write_df", "tmp", "artist_counts.csv"),
      Step("call", "analyze_temporal", "tmp", ""),
      Step("write", "write_df", "tmp", "decade_counts.csv"),
      Step("call", "analyze_work_types", "tmp", ""),
      Step("write", "write_df", "tmp", "work_type_distribution.csv"),
      Step("call", "analyze_museum_collection", "tmp", ""),
      Step("write", "write_df", "tmp", "museum_collection_by_artist.csv"),
      Step("call", "analyze_objects", "tmp", ""),
      Step("write", "write_df", "tmp", "object_appearances.csv"),
      Step("call", "analyze_object_percentages", "tmp", ""),
      Step("write", "write_df", "tmp", "object_coverage_stats.csv"),
      Step("print", "print", "", "")>>

\* The reducer named fn, applied to the table d.
Reducer(fn, d) ==
    CASE fn = "generate_summary_stats" -> generate_summary_stats(d)
      [] fn = "analyze_gender" -> analyze_gender(d)
      [] fn = "analyze_nationality" -> analyze_nationality(d)
      [] fn = "analyze_artists" -> analyze_artists(d)
      [] fn = "analyze_temporal" -> analyze_temporal(d)
      [] fn = "analyze_work_types" -> analyze_work_types(d)
      [] fn = "analyze_museum_collection" -> analyze_museum_collection(d)
      [] fn = "analyze_objects" -> analyze_objects(d)
      [] fn = "analyze_object_percentages" -> analyze_object_percentages(d)

Unloaded == [columns |-> <<>>, n |-> 0, col |-> <<>>]
NoLocals == [summary_df |-> <<>>, missing_df |-> <<>>, tmp |-> <<>>]

AtStep(op) == pc = "running" /\ line \in 1..Len(MainSteps) /\ MainSteps[line].op = op

Advance(event) ==
    /\ line' = line + 1
    /\ trace' = Append(trace, event)
    /\ UNCHANGED <<pc, raised>>

\* A variant of main that catches the error of a step and goes on with the next.
CatchAndContinue(error) ==
    /\ raised' = error
    /\ line' = line + 1
    /\ UNCHANGED <<df, pc, ret, locals, written, trace>>

\* main catches nothing: an exception raised by a step ends the run there.
Propagate(error) ==
    /\ raised' = error
    /\ pc' = "failed"
    /\ UNCHANGED <<df, line, ret, locals, written, trace>>

\* The tables final_dataset.csv may hold in the runs of main: the fixed columns
\* and one presence and one coverage column.
MainOriginCells == {Missing, Some(<<"A", "|", "B">>)}
MainArtistCells == {Missing, Some(<<"X">>)}
MainYearCells == {Missing, Some(1923)}
MainPresenceCells == {Missing, Some(1)}
MainPercentCells == {Missing, Some(30)}

MainTables ==
    {Table(n, <<has_hat, has_hat_percent>>,
           (origin :> o) @@ (artist_name :> a) @@ (creation_year :> y)
               @@ (has_hat :> h) @@ (has_hat_percent :> p)
               @@ (gender :> [i \in 1..n |-> Some("F")])
               @@ (work_type :> [i \in 1..n |-> Some("photograph")])
               @@ (works_in_museum :> [i \in 1..n |-> Some(5)])
               @@ (object_id :> [i \in 1..n |-> Some(i)])) :
        <<n, o, a, y, h, p>> \in
            UNION {{n} \X [1..n -> MainOriginCells] \X [1..n -> MainArtistCells]
                       \X [1..n -> MainYearCells] \X [1..n -> MainPresenceCells]
                       \X [1..n -> MainPercentCells] : n \in 0..MaxMainRows}}

LoadData ==
    /\ AtStep("load")
    /\ df' \in MainTables
    /\ Advance(<<"load", "final_dataset.csv">>)
    /\ UNCHANGED <<ret, locals, written>>

LoadDataRaises ==
    /\ AtStep("load")
    /\ Propagate("FileNotFoundError")

EnsureOutputDir ==
    /\ AtStep("mkdir")
    /\ Advance(<<"mkdir", "analysis_outputs">>)
    /\ UNCHANGED <<df, ret, locals, written>>

EnsureOutputDirRaises ==
    /\ AtStep("mkdir")
    /\ Propagate("OSError")

CallReducer ==
    /\ AtStep("call")
    /\ LET result == Reducer(MainSteps[line].fn, df)
       IN /\ result.raised = ""
          /\ ret' = result
          /\ locals' = IF MainSteps[line].fn = "generate_summary_stats"
                       THEN [locals EXCEPT !.summary_df = result.value.summary,
                                           !.missing_df = result.value.missing_df]
                       ELSE [locals EXCEPT !.tmp = result.value]
    /\ Advance(<<"call", MainSteps[line].fn>>)
    /\ UNCHANGED <<df, written>>

CallReducerRaises ==
    /\ AtStep("call")
    /\ Reducer(MainSteps[line].fn, df).raised # ""
    /\ Propagate(Reducer(MainSteps[line].fn, df).raised)

WriteDf ==
    /\ AtStep("write")
    /\ written' = Append(written, [file |-> MainSteps[line].file,
                                   frame |-> locals[MainSteps[line].var]])
    /\ Advance(<<"write", MainSteps[line].file>>)
    /\ UNCHANGED <<df, ret, locals>>

WriteDfRaises ==
    /\ AtStep("write")
    /\ Propagate("OSError")

Finish ==
    /\ AtStep("print")
    /\ pc' = "done"
    /\ UNCHANGED <<df, line, ret, locals, written, trace, raised>>

InitMain ==
    /\ df = Unloaded
    /\ pc = "running"
    /\ line = 1
    /\ ret = NoReturn
    /\ locals = NoLocals
    /\ written = <<>>
    /\ trace = <<>>
    /\ raised = ""

NextMain ==
    \/ LoadData
    \/ LoadDataRaises
    \/ EnsureOutputDir
    \/ EnsureOutputDirRaises
    \/ CallReducer
    \/ CallReducerRaises
    \/ WriteDf
    \/ WriteDfRaises
    \/ Finish

SpecMain == InitMain /\ [][NextMain]_vars

\* The reports, in the order main writes them, and the reducer and the part of
\* its result each is made of.
Reports ==
    <<[file |-> "summary.csv", fn |-> "generate_summary_stats"],
      [file |-> "missing_data_percentages.csv", fn |-> "generate_summary_stats"],
      [file |-> "gender_distribution.csv", fn |-> "analyze_gender"],
      [file |-> "nationality_counts.csv", fn |-> "analyze_nationality"],
      [file |-> "artist_counts.csv", fn |-> "analyze_artists"],
      [file |-> "decade_counts.csv", fn |-> "analyze_temporal"],
      [file |-> "work_type_distribution.csv", fn |-> "analyze_work_types"],
      [file |-> "museum_collection_by_artist.csv", fn |-> "analyze_museum_collection"],
      [file |-> "object_appearances.csv", fn |-> "analyze_objects"],
      [file |-> "object_coverage_stats.csv", fn |-> "analyze_object_percentages"]>>

ReportFrame(r, d) ==
    IF r.file = "summary.csv" THEN generate_summary_stats(d).value.summary
    ELSE IF r.file = "missing_data_percentages.csv"
         THEN generate_summary_stats(d).value.missing_df
         ELSE Reducer(r.fn, d).value

Positions(event) == {k \in 1..Len(trace) : trace[k] = event}

\* C9: in a run of main in which no step fails, load_data is called once and
\* before every reducer and every write, every reducer runs on the table it
\* loaded, and write_df is called exactly once per report, after the reducer
\* that made the report's table has returned.
C9_LoadOnceReduceAllWriteEach ==
    pc = "done" =>
        /\ raised = ""
        /\ Cardinality({k \in 1..Len(trace) : trace[k][1] = "load"}) = 1
        /\ trace[1][1] = "load"
        /\ Cardinality({k \in 1..Len(trace) : trace[k][1] = "write"}) = Len(Reports)
        /\ Len(written) = Len(Reports)
        /\ \A i \in 1..Len(Reports) :
               /\ Cardinality(Positions(<<"write", Reports[i].file>>)) = 1
               /\ Cardinality(Positions(<<"call", Reports[i].fn>>)) = 1
               /\ \A w \in Positions(<<"write", Reports[i].file>>) :
                      \A c \in Positions(<<"call", Reports[i].fn>>) : c < w
               /\ \E k \in 1..Len(written) :
                      /\ written[k].file = Reports[i].file
                      /\ written[k].frame = ReportFrame(Reports[i], df)

C9_Witness ==
    /\ pc = "done"
    /\ len(df) = 1
    /\ Len(written) = 10

\* The files written so far, in order.
WrittenFiles == [k \in 1..Len(written) |-> written[k].file]
ReportFiles == [k \in 1..Len(Reports) |-> Reports[k].file]

\* C10 as stated: when a step of main raises, the error leaves main, no later
\* report is written, and the run leaves no proper subset of the reports: it
\* has written none of them or all of them.
C10_NoPartialOutput ==
    raised # "" =>
        /\ pc = "failed"
        /\ Range(WrittenFiles) \in {{}, Range(ReportFiles)}

\* C10 as amended: when a step of main raises, the error leaves main and no
\* later report is written; the reports written before the failing step stay
\* written, so the failed run leaves exactly the reports that precede the
\* failing step in main's order, which may be a proper subset of them.
C10_FailureKeepsEarlierReports ==
    raised # "" =>
        /\ pc = "failed"
        /\ Len(written) < Len(Reports)
        /\ WrittenFiles = SubSeq(ReportFiles, 1, Len(written))
        /\ MainSteps[line].op \in {"call", "write"} =>
               \/ /\ MainSteps[line].op = "write"
                  /\ MainSteps[line].file = ReportFiles[Len(written) + 1]
               \/ /\ MainSteps[line].op = "call"
                  /\ MainSteps[line].fn = Reports[Len(written) + 1].fn

C10_Witness ==
    /\ pc = "failed"
    /\ raised = "KeyError"
    /\ MainSteps[line].fn = "analyze_nationality"
    /\ Len(written) = 3

====
